---- MODULE Spec2Model ----
(***************************************************************************)
(* Tsunami alerting pipeline: the polling loop of email_alert.py (fetch,   *)
(* recency filter, risk scoring, formatting, SMTP dispatch), the polling   *)
(* loop of tsunami_monitor.py, the tier table of tsunami_dashboard.py, the *)
(* feature builders of the three entry points and the recipient store.     *)
(*                                                                         *)
(* Units: magnitudes are tenths (75 is 7.5), probabilities are percent     *)
(* (40 is 0.4), depths are km, event timestamps are epoch milliseconds     *)
(* and the wall clock is epoch seconds.                                    *)
(***************************************************************************)
EXTENDS Integers, Sequences, FiniteSets, TLC

VARIABLES
    \* ---- environment shared by the entry points
    artifact,       \* tsunami_prediction_model.pkl on disk: "ok" | "missing"
    env,            \* names of the environment variables that are set
    store,          \* emails.txt: [state: "absent"|"corrupt"|"list", items: Seq(address)]
    now,            \* wall clock, epoch seconds
    \* ---- email_alert.py
    pc,             \* "import" | "main" | "cycle" | "events" | "sleep" | "stopped_user" | "stopped_error"
    model,          \* module global `model`: "unset" | "loaded" | "none"
    EMAIL_USERNAME, \* module global: "" or the value read
    EMAIL_PASSWORD, \* module global: "" or the value read
    check_interval, \* main's local, seconds
    cycle,          \* number of completed calls of process_earthquakes
    payload,        \* earthquake_data['features'] of the running cycle (event ids)
    idx,            \* position of the for-loop in payload
    recipients,     \* process_earthquakes' local `recipients`
    alerts_sent,    \* process_earthquakes' local `alerts_sent`
    cyclog,         \* what the running cycle did with each event it reached
    fetchlog,       \* the running cycle's fetch_earthquake_data: what the primary
                    \* feed answered, what the backup feed answers when asked, the
                    \* URLs requested, the value returned, the path taken
    alerted,        \* the first id this process handed to send_email_alert in an
                    \* earlier cycle, as a set of at most one id (the program keeps
                    \* no such record; this is history)
    slept,          \* the last time.sleep of main: its argument, and the number of
                    \* cycles in a row with both feeds failing that it closes
    \* ---- tsunami_monitor.py
    mon_pc,         \* "import" | "fetch" | "events" | "sleep" | "crashed" | "stopped_user"
    mon_model,      \* module global `model`: "unset" | "loaded"
    mon_payload,    \* `earthquakes` of the running pass
    mon_idx,        \* position of the for-loop
    mon_log,        \* results of process_earthquake in the running pass
    mon_cycle,      \* number of completed passes
    \* ---- one call of the scorer and the formatter on a free input
    sc_event,       \* the event handed to predict_tsunami_risk
    sc_model,       \* the global `model` at the call: "loaded" | "none"
    sc_outcome,     \* what model.predict_proba does when invoked
    sc_result,      \* the call's result
    sc_format,      \* what the gate and the formatters make of the result
    sc_pc,          \* "idle" | "input" | "scored" | "labelled"
    \* ---- one call of tsunami_dashboard.predict_tsunami_risk(df)
    dash_pc,        \* "idle" | "input" | "done"
    dash_model,     \* module global `model`: "loaded" | "none"
    dash_df,        \* the rows of df, as fetch_recent_earthquakes builds them
    dash_proba,     \* what model.predict_proba answers, a probability per row
    dash_data,      \* prediction_data, the rows handed to the model
    dash_levels,    \* the list returned
    \* ---- the three feature builders applied to one event under one schema
    nz_pc,          \* "idle" | "input" | "built"
    nz_event,       \* the raw event
    nz_schema,      \* module global `features`
    nz_rows,        \* the row each entry point hands to its model
    \* ---- successive calls of load_email_recipients on `store`
    ld_returns,     \* the lists returned so far, oldest first
    \* ---- single iterations of the loop of process_earthquakes on free features
    it_log,         \* the features iterated on and what each iteration did
    \* ---- tsunami_system.py, the supervisor
    sup_pc,            \* where main is: "check" | "start_dashboard" | "bind_dashboard" |
                       \* "start_alert" | "bind_alert" | "poll_dashboard" |
                       \* "restart_dashboard" | "rebind_dashboard" | "poll_alert" |
                       \* "restart_alert" | "rebind_alert" | "sleep" | "exited" |
                       \* "crashed" | "killed" | "stopped"
    dashboard_process, \* main's local: index in sup_procs of the Popen it holds, 0 before
    alert_process,     \* main's local: index in sup_procs of the Popen it holds, 0 before
    sup_procs          \* the processes Popen has started, oldest first: script and state

envVars   == <<artifact, env, store, now>>
alertVars == <<pc, model, EMAIL_USERNAME, EMAIL_PASSWORD, check_interval, cycle,
               payload, idx, recipients, alerts_sent, cyclog, fetchlog, alerted, slept>>
monVars   == <<mon_pc, mon_model, mon_payload, mon_idx, mon_log, mon_cycle>>
scVars    == <<sc_event, sc_model, sc_outcome, sc_result, sc_format, sc_pc>>
dashVars  == <<dash_pc, dash_model, dash_df, dash_proba, dash_data, dash_levels>>
nzVars    == <<nz_pc, nz_event, nz_schema, nz_rows>>
supVars   == <<sup_pc, dashboard_process, alert_process, sup_procs>>
restVars  == <<it_log, supVars>>
unitVars  == <<dashVars, nzVars, ld_returns, restVars>>
vars      == <<envVars, alertVars, monVars, scVars, unitVars>>

-----------------------------------------------------------------------------
(* Bounds of the model *)

\* cycles of a polling loop that are explored
MaxCycles == 2
\* longest `features` list a feed answers with
MaxFeed == 2
\* wall clock at process start, epoch seconds
StartNow == 100000

-----------------------------------------------------------------------------
(* Program constants *)

\* recency window of process_earthquakes, seconds
RECENCY_WINDOW == 1800
\* default of CHECK_INTERVAL_MINUTES
DEFAULT_CHECK_INTERVAL_MINUTES == 15
\* sleep of monitor_earthquakes, seconds
MONITOR_SLEEP == 300
-----------------------------------------------------------------------------
(* Values *)

\* a JSON number, a JSON null, or a missing key
Num(n)  == [kind |-> "num", v |-> n]
Null    == [kind |-> "null", v |-> 0]
Absent  == [kind |-> "absent", v |-> 0]

\* dict.get(key, default) on a field that is a number, null or missing
Get(field, default) == IF field.kind = "absent" THEN Num(default) ELSE field

\* A feature of the feed (RawEvent). hasProps / hasGeom say whether the
\* 'properties' / 'geometry' keys exist; coords is geometry.coordinates,
\* [lon, lat, depth] when complete.
Event(id, hasProps, mag, tsunami, time, hasGeom, coords, magType, aux) ==
    [id |-> id, hasProps |-> hasProps, mag |-> mag, tsunami |-> tsunami,
     time |-> time, hasGeom |-> hasGeom, coords |-> coords, magType |-> magType,
     sig |-> aux, gap |-> aux, dmin |-> aux, mmi |-> aux]

\* the feature schema (module global `features`): the default list of
\* email_alert.py / tsunami_monitor.py followed by one-hot magnitude-type
\* columns as tsunami_model.py writes them to model_features.txt
NumericFeatures == <<"magnitude", "depth", "latitude", "longitude", "sig", "gap", "dmin", "mmi">>
MagTypeColumns  == <<"mb", "mww">>
features == NumericFeatures \o [i \in 1..Len(MagTypeColumns) |-> "magType_" \o MagTypeColumns[i]]

-----------------------------------------------------------------------------
(* email_alert.py: feature preparation and risk scoring *)

\* coords[i] if len(coords) > i else 0   (0-based i in the source)
CoordOr0(coords, i) == IF Len(coords) > i THEN Num(coords[i + 1]) ELSE Num(0)

\* lines 140-161 under the schema `schema`: the eight entries of `data`,
\* every other schema feature 0, in the schema's order
PreparedRow(earthquake, schema) ==
    LET coords == earthquake.coords
        data == [magnitude |-> Get(earthquake.mag, 0),
                 depth     |-> CoordOr0(coords, 2),
                 latitude  |-> CoordOr0(coords, 1),
                 longitude |-> CoordOr0(coords, 0),
                 sig       |-> Get(earthquake.sig, 0),
                 gap       |-> Get(earthquake.gap, 0),
                 dmin      |-> Get(earthquake.dmin, 0),
                 mmi       |-> Get(earthquake.mmi, 0)]
    IN [i \in 1..Len(schema) |->
          IF schema[i] \in DOMAIN data THEN data[schema[i]] ELSE Num(0)]

\* prepare_prediction_data: None (ok = FALSE) when building the row raises,
\* else the row df[features]
prepare_prediction_data(earthquake) ==
    IF ~earthquake.hasProps \/ ~earthquake.hasGeom
    THEN [ok |-> FALSE, row |-> <<>>]
    ELSE [ok |-> TRUE, row |-> PreparedRow(earthquake, features)]

\* results of predict_tsunami_risk: a (probability, reason) pair or an
\* exception; prepared / invoked record whether prepare_prediction_data and
\* model.predict_proba were called
Assessed(p, reason, prepared, invoked) ==
    [raised |-> FALSE, prob |-> p, reason |-> reason,
     prepared |-> prepared, invoked |-> invoked]
Raised(prepared, invoked) ==
    [raised |-> TRUE, prob |-> 0, reason |-> "exception",
     prepared |-> prepared, invoked |-> invoked]

\* what model.predict_proba does when it is called
ModelReturns(p) == [raises |-> FALSE, p |-> p]
ModelRaises     == [raises |-> TRUE, p |-> 0]

\* a slip in the depth comparison: depth <= 50 counted as shallow
Heuristic_depth_inclusive(earthquake, magnitude, prepared, invoked) ==
    IF magnitude >= 65
    THEN IF ~earthquake.hasGeom \/ Len(earthquake.coords) < 3
         THEN Raised(prepared, invoked)
         ELSE IF earthquake.coords[3] <= 50
              THEN Assessed(70, "shallow_large", prepared, invoked)
              ELSE Assessed(30, "moderate", prepared, invoked)
    ELSE IF magnitude >= 60
         THEN Assessed(30, "moderate", prepared, invoked)
         ELSE Assessed(10, "low_magnitude", prepared, invoked)

\* lines 188-194: the fallback heuristics; reads coordinates[2] unguarded
Heuristic(earthquake, magnitude, prepared, invoked) ==
    IF magnitude >= 65
    THEN IF ~earthquake.hasGeom \/ Len(earthquake.coords) < 3
         THEN Raised(prepared, invoked)
         ELSE IF earthquake.coords[3] < 50
              THEN Assessed(70, "shallow_large", prepared, invoked)
              ELSE Assessed(30, "moderate", prepared, invoked)
    ELSE IF magnitude >= 60
         THEN Assessed(30, "moderate", prepared, invoked)
         ELSE Assessed(10, "low_magnitude", prepared, invoked)

\* a slip in the magnitude override: 7.5 itself excluded
MagnitudeOverride_strict(magnitude) == magnitude > 75

\* line 174: the magnitude override
MagnitudeOverride(magnitude) == magnitude >= 75

\* lines 177-186: the model path; TRUE when it returns the model's answer
ModelAnswers(earthquake, mdl, mo) ==
    /\ mdl = "loaded"
    /\ prepare_prediction_data(earthquake).ok
    /\ ~mo.raises

\* a slip in the precedence: the magnitude override tested before the flag
predict_magnitude_first(earthquake, mdl, mo) ==
    IF ~earthquake.hasProps THEN Raised(FALSE, FALSE)
    ELSE LET magnitude == Get(earthquake.mag, 0)
             prepared  == mdl = "loaded"
             invoked   == prepared /\ prepare_prediction_data(earthquake).ok
         IN IF magnitude.kind = "null" THEN Raised(FALSE, FALSE)
            ELSE IF MagnitudeOverride(magnitude.v)
            THEN Assessed(90, "very_high_magnitude", FALSE, FALSE)
            ELSE IF earthquake.tsunami = Num(1)
            THEN Assessed(100, "official", FALSE, FALSE)
            ELSE IF ModelAnswers(earthquake, mdl, mo)
            THEN Assessed(mo.p, "model", TRUE, TRUE)
            ELSE Heuristic(earthquake, magnitude.v, prepared, invoked)

\* predict_tsunami_risk(earthquake) with the global `model` = mdl and
\* model.predict_proba behaving as mo
predict_tsunami_risk(earthquake, mdl, mo) ==
    IF ~earthquake.hasProps THEN Raised(FALSE, FALSE)
    ELSE IF earthquake.tsunami = Num(1)
    THEN Assessed(100, "official", FALSE, FALSE)
    ELSE LET magnitude == Get(earthquake.mag, 0)
             prepared  == mdl = "loaded"
             invoked   == prepared /\ prepare_prediction_data(earthquake).ok
         IN IF magnitude.kind = "null" THEN Raised(FALSE, FALSE)
            ELSE IF MagnitudeOverride(magnitude.v)
            THEN Assessed(90, "very_high_magnitude", FALSE, FALSE)
            ELSE IF ModelAnswers(earthquake, mdl, mo)
            THEN Assessed(mo.p, "model", TRUE, TRUE)
            ELSE Heuristic(earthquake, magnitude.v, prepared, invoked)

\* a slip in the label thresholds: the boundaries given to the lower label
format_email_subject_strict(earthquake, probability) ==
    IF probability > 70 THEN "HIGH"
    ELSE IF probability > 40 THEN "MEDIUM"
    ELSE "LOW"

\* format_email_subject: the risk label of the subject line
format_email_subject(earthquake, probability) ==
    IF probability >= 70 THEN "HIGH"
    ELSE IF probability >= 40 THEN "MEDIUM"
    ELSE "LOW"

\* a slip in the body's thresholds: the boundaries given to the lower level
format_email_body_strict(earthquake, probability) ==
    IF ~earthquake.hasProps \/ ~earthquake.hasGeom \/ earthquake.time.kind = "null"
    THEN [ok |-> FALSE, level |-> "none"]
    ELSE [ok |-> TRUE,
          level |-> IF probability > 70 THEN "High"
                    ELSE IF probability > 40 THEN "Medium"
                    ELSE "Low"]

\* format_email_body: the risk level of the bodies; raises (ok = FALSE)
\* when earthquake['geometry']['coordinates'] or the time conversion does
format_email_body(earthquake, probability) ==
    IF ~earthquake.hasProps \/ ~earthquake.hasGeom \/ earthquake.time.kind = "null"
    THEN [ok |-> FALSE, level |-> "none"]
    ELSE [ok |-> TRUE,
          level |-> IF probability >= 70 THEN "High"
                    ELSE IF probability >= 40 THEN "Medium"
                    ELSE "Low"]

\* a slip in the tier thresholds: each boundary given to the lower tier
risk_level_inclusive(prob) ==
    IF prob <= 20 THEN "Very Low"
    ELSE IF prob <= 40 THEN "Low"
    ELSE IF prob <= 60 THEN "Moderate"
    ELSE IF prob <= 80 THEN "High"
    ELSE "Very High"

\* tsunami_dashboard.predict_tsunami_risk, lines 341-352: the five tiers
risk_level(prob) ==
    IF prob < 20 THEN "Very Low"
    ELSE IF prob < 40 THEN "Low"
    ELSE IF prob < 60 THEN "Moderate"
    ELSE IF prob < 80 THEN "High"
    ELSE "Very High"

-----------------------------------------------------------------------------
(* email_alert.py: feed, recipient store, SMTP *)

\* a decoded feed document: a dict with a `features` list, a non-empty dict
\* without the key, a dict whose `features` is null, or the empty dict
Collection(ids) == [shape |-> "collection", features |-> ids]
NoFeatures      == [shape |-> "no_features", features |-> <<>>]
NullFeatures    == [shape |-> "features_null", features |-> <<>>]
EmptyDoc        == [shape |-> "empty", features |-> <<>>]
NoData          == [shape |-> "none", features |-> <<>>]

\* what one requests.get does: "ok" is status 200 with a body that decodes,
\* "status" a non-200 status, "transport" requests.get raising, "malformed"
\* status 200 with a body on which .json() raises
Response(kind, doc) == [kind |-> kind, doc |-> doc]

\* a slip in the fallback: the backup feed never asked
fetch_primary_only(primary, backup) ==
    [data |-> IF primary.kind = "ok" THEN primary.doc ELSE NoData,
     requests |-> <<"USGS_API_URL">>]

\* fetch_earthquake_data: the returned document (NoData for None) and the
\* URLs requested, in order
fetch_earthquake_data(primary, backup) ==
    IF primary.kind = "ok"
    THEN [data |-> primary.doc, requests |-> <<"USGS_API_URL">>]
    ELSE IF primary.kind = "status"
    THEN [data |-> IF backup.kind = "ok" THEN backup.doc ELSE NoData,
          requests |-> <<"USGS_API_URL", "BACKUP_API_URL">>]
    ELSE [data |-> NoData, requests |-> <<"USGS_API_URL">>]

\* the backup feed when the primary answered and it plays no part, and the
\* record of a cycle that has not fetched
Unasked == Response("unasked", NoData)
NoFetch == [primary |-> Unasked, backup |-> Unasked, requests |-> <<>>,
            data |-> NoData, path |-> "none"]

\* an address of emails.txt, by the two characters the validation looks for
Addr(name, at, dot) == [name |-> name, at |-> at, dot |-> dot]
default_emails == <<Addr("speakup189", TRUE, TRUE), Addr("ankity1892003", TRUE, TRUE)>>

\* emails.txt: absent, unreadable as a JSON list of strings, or a list;
\* writable says whether open('emails.txt', 'w') succeeds
StoreAbsent(writable)      == [state |-> "absent", items |-> <<>>, writable |-> writable]
StoreCorrupt(writable)     == [state |-> "corrupt", items |-> <<>>, writable |-> writable]
StoreList(items, writable) == [state |-> "list", items |-> items, writable |-> writable]

RECURSIVE valid_emails(_)
valid_emails(emails) ==
    IF emails = <<>> THEN <<>>
    ELSE LET rest == valid_emails(Tail(emails))
         IN IF Head(emails).at /\ Head(emails).dot
            THEN <<Head(emails)>> \o rest ELSE rest

\* a slip in the fallback: the default list returned but not written
load_email_recipients_unwritten(st) ==
    IF st.state = "list"
    THEN [emails |-> valid_emails(st.items), store |-> st]
    ELSE [emails |-> default_emails, store |-> st]

\* load_email_recipients: the list returned and emails.txt afterwards
load_email_recipients(st) ==
    IF st.state = "list"
    THEN [emails |-> valid_emails(st.items), store |-> st]
    ELSE [emails |-> default_emails,
          store  |-> IF st.writable THEN StoreList(default_emails, TRUE) ELSE st]

\* send_email_alert: the boolean returned and the SMTP steps performed;
\* smtp names the first step that raises ("none" when all succeed)
SmtpSteps == <<"connect", "starttls", "login", "sendmail">>
SmtpFailures == {"none", "connect", "starttls", "login", "sendmail"}
\* the failures a cycle is explored with
CycleSmtpFailures == SmtpFailures
StepsBefore(smtp) ==
    IF smtp = "none" THEN SmtpSteps
    ELSE SubSeq(SmtpSteps, 1, (CHOOSE i \in 1..Len(SmtpSteps) : SmtpSteps[i] = smtp) - 1)

\* a slip in the dispatch: a failed attempt made a second time
send_email_alert_retry(to, username, password, smtp) ==
    IF username = "" \/ password = ""
    THEN [ok |-> FALSE, steps |-> <<>>, to |-> <<>>]
    ELSE [ok |-> smtp = "none",
          steps |-> IF smtp = "none" THEN SmtpSteps
                    ELSE StepsBefore(smtp) \o StepsBefore(smtp),
          to |-> IF smtp = "none" THEN to ELSE <<>>]

\* a slip in the dispatch: the server contacted without credentials
send_email_alert_unchecked(to, username, password, smtp) ==
    [ok |-> smtp = "none", steps |-> StepsBefore(smtp),
     to |-> IF smtp = "none" THEN to ELSE <<>>]

\* a slip in the dispatch: the message addressed to the first recipient only
send_email_alert_first_only(to, username, password, smtp) ==
    IF username = "" \/ password = ""
    THEN [ok |-> FALSE, steps |-> <<>>, to |-> <<>>]
    ELSE [ok |-> smtp = "none", steps |-> StepsBefore(smtp),
          to |-> IF smtp = "none" THEN SubSeq(to, 1, 1) ELSE <<>>]

send_email_alert(to, username, password, smtp) ==
    IF username = "" \/ password = ""
    THEN [ok |-> FALSE, steps |-> <<>>, to |-> <<>>]
    ELSE [ok |-> smtp = "none", steps |-> StepsBefore(smtp),
          to |-> IF smtp = "none" THEN to ELSE <<>>]

-----------------------------------------------------------------------------
(* email_alert.py: one iteration of the loop of process_earthquakes *)

\* a slip in the recency test: an event exactly 1800 s old rejected
TooOld_inclusive(time_ms, nowS) == nowS * 1000 - time_ms >= RECENCY_WINDOW * 1000

\* a slip in the recency test: the age bounded on both sides
TooOld_two_sided(time_ms, nowS) ==
    \/ nowS * 1000 - time_ms > RECENCY_WINDOW * 1000
    \/ time_ms - nowS * 1000 > RECENCY_WINDOW * 1000

\* lines 397-403: (now - event_time).total_seconds() > 1800, in milliseconds
TooOld(time_ms, nowS) == nowS * 1000 - time_ms > RECENCY_WINDOW * 1000

\* a slip in the gate: 0.4 itself dropped
AboveGate_strict(probability) == probability > 40

\* a slip in the gate: the threshold placed below the MEDIUM label
AboveGate_low(probability) == probability >= 30

\* line 409: the dispatch gate
AboveGate(probability) == probability >= 40

Outcome(earthquake, stage, res, label, level, sent) ==
    [id |-> earthquake.id, stage |-> stage,
     scored |-> stage \in {"error_score", "below_gate", "error_format", "dispatched"},
     raised |-> res.raised, prob |-> res.prob, reason |-> res.reason,
     invoked |-> res.invoked, label |-> label, level |-> level,
     called |-> stage = "dispatched", ok |-> sent.ok, steps |-> sent.steps, to |-> sent.to]

NotScored == Assessed(0, "none", FALSE, FALSE)
NotSent   == [ok |-> FALSE, steps |-> <<>>, to |-> <<>>]
NotFormatted == [gate |-> FALSE, subject |-> "none", body_ok |-> FALSE,
                 level |-> "none", tier |-> "none"]

\* the body of the for-loop, lines 394-419, for one feature: the stage it
\* ends in and what it computed on the way
ProcessOne(earthquake, nowS, mdl, mo, to, username, password, smtp) ==
    IF ~earthquake.hasProps \/ earthquake.time.kind = "null"
    THEN Outcome(earthquake, "error_time", NotScored, "none", "none", NotSent)
    ELSE IF TooOld(Get(earthquake.time, 0).v, nowS)
    THEN Outcome(earthquake, "too_old", NotScored, "none", "none", NotSent)
    ELSE LET res == predict_tsunami_risk(earthquake, mdl, mo)
         IN IF res.raised
            THEN Outcome(earthquake, "error_score", res, "none", "none", NotSent)
            ELSE IF ~AboveGate(res.prob)
            THEN Outcome(earthquake, "below_gate", res, "none", "none", NotSent)
            ELSE LET subject == format_email_subject(earthquake, res.prob)
                     body    == format_email_body(earthquake, res.prob)
                 IN IF ~body.ok
                    THEN Outcome(earthquake, "error_format", res, subject, "none", NotSent)
                    ELSE Outcome(earthquake, "dispatched", res, subject, body.level,
                                 send_email_alert(to, username, password, smtp))

-----------------------------------------------------------------------------
(* The environment the processes run in *)

Shallow == <<142, 38, 10>>

\* the events the feed can list, by id; times are relative to the start
FeedEvent(id) ==
    CASE id = "official" ->
           Event(id, TRUE, Num(78), Num(1), Num(StartNow * 1000), TRUE, Shallow, "mww", Num(5))
      [] id = "nodepth" ->
           Event(id, TRUE, Num(68), Num(0), Num(StartNow * 1000), TRUE, <<142, 38>>, "mb", Null)
      [] id = "moderate" ->
           Event(id, TRUE, Num(62), Num(0), Num(StartNow * 1000), TRUE, <<142, 38, 100>>, "ml", Absent)
      [] id = "nogeom" ->
           Event(id, TRUE, Num(70), Num(1), Num(StartNow * 1000), FALSE, <<>>, "mww", Num(5))
      [] id = "edge" ->
           Event(id, TRUE, Num(80), Num(1), Num((StartNow - RECENCY_WINDOW) * 1000), TRUE, Shallow, "mww", Num(5))
      [] id = "old" ->
           Event(id, TRUE, Num(80), Num(1), Num((StartNow - RECENCY_WINDOW) * 1000 - 1), TRUE, Shallow, "mww", Num(5))
      [] id = "nullmag" ->
           Event(id, TRUE, Null, Num(0), Num(StartNow * 1000), TRUE, Shallow, "", Null)
      [] id = "big" ->
           Event(id, TRUE, Num(75), Absent, Num(StartNow * 1000), TRUE, <<142, 38, 60>>, "mww", Num(5))
      [] id = "noprops" ->
           Event(id, FALSE, Absent, Absent, Absent, TRUE, Shallow, "", Absent)

\* the order in which the feed lists them
FeedOrder == <<"official", "nodepth", "moderate", "nogeom", "edge", "old", "nullmag", "big",
               "noprops">>

\* the `features` lists a feed can answer with: the sublists of FeedOrder of
\* at most MaxFeed events
Payloads ==
    LET Increasing(f) == \A i \in DOMAIN f : \A j \in DOMAIN f : i < j => f[i] < f[j]
        Picks == UNION { [1..n -> 1..Len(FeedOrder)] : n \in 0..MaxFeed }
    IN { [i \in DOMAIN f |-> FeedOrder[f[i]]] : f \in { g \in Picks : Increasing(g) } }

Documents == { Collection(ids) : ids \in Payloads } \cup {NoFeatures, NullFeatures, EmptyDoc}
Responses == { Response("ok", d) : d \in Documents }
             \cup { Response(k, NoData) : k \in {"status", "transport", "malformed"} }

\* what model.predict_proba can do in a cycle
ModelOutcomes == {ModelRaises, ModelReturns(39), ModelReturns(40)}

\* environment variables: the names the program reads, "" when unset
EnvNames == {"EMAIL_USERNAME", "EMAIL_PASSWORD", "speakup189@gmail.com",
             "pssz fkbk baya fqwo", "CHECK_INTERVAL_MINUTES"}
DotEnv == [n \in EnvNames |->
             CASE n = "EMAIL_USERNAME" -> "user@example.com"
               [] n = "EMAIL_PASSWORD" -> "app-password"
               [] OTHER -> ""]
LiteralEnv == [n \in EnvNames |->
             CASE n = "EMAIL_USERNAME" -> "user@example.com"
               [] n = "EMAIL_PASSWORD" -> "app-password"
               [] n = "speakup189@gmail.com" -> "literal-user"
               [] n = "pssz fkbk baya fqwo" -> "literal-password"
               [] n = "CHECK_INTERVAL_MINUTES" -> "30"]
EnvChoices == {DotEnv, LiteralEnv}

\* os.getenv(name, default)
getenv(e, name, default) == IF e[name] = "" THEN default ELSE e[name]

\* int(os.getenv('CHECK_INTERVAL_MINUTES', 15))
CheckIntervalMinutes(e) ==
    IF e["CHECK_INTERVAL_MINUTES"] = "" THEN DEFAULT_CHECK_INTERVAL_MINUTES
    ELSE IF e["CHECK_INTERVAL_MINUTES"] = "30" THEN 30 ELSE 45

InitialStores ==
    { StoreAbsent(TRUE),
      StoreList(<<Addr("typo", TRUE, FALSE)>>, TRUE) }

-----------------------------------------------------------------------------
(* Initial state: before either module is imported *)

EnvInit ==
    /\ artifact \in {"ok", "missing"}
    /\ env \in EnvChoices
    /\ store \in InitialStores
    /\ now = StartNow

AlertInit ==
    /\ pc = "import"
    /\ model = "unset"
    /\ EMAIL_USERNAME = ""
    /\ EMAIL_PASSWORD = ""
    /\ check_interval = 0
    /\ cycle = 0
    /\ payload = <<>>
    /\ idx = 1
    /\ recipients = <<>>
    /\ alerts_sent = 0
    /\ cyclog = <<>>
    /\ fetchlog = NoFetch
    /\ alerted = {}
    /\ slept = [secs |-> 0, failures |-> 0]

MonInit ==
    /\ mon_pc = "import"
    /\ mon_model = "unset"
    /\ mon_payload = <<>>
    /\ mon_idx = 1
    /\ mon_log = <<>>
    /\ mon_cycle = 0

ScInit ==
    /\ sc_event = FeedEvent("official")
    /\ sc_model = "none"
    /\ sc_outcome = ModelRaises
    /\ sc_result = NotScored
    /\ sc_format = NotFormatted
    /\ sc_pc = "idle"

-----------------------------------------------------------------------------
(* email_alert.py as a process *)

\* module import, lines 17-83: read the credentials, try to load the model
Import ==
    /\ pc = "import"
    /\ EMAIL_USERNAME' = getenv(env, "speakup189@gmail.com", "")
    /\ EMAIL_PASSWORD' = getenv(env, "pssz fkbk baya fqwo", "")
    /\ model' = IF artifact = "ok" THEN "loaded" ELSE "none"
    /\ pc' = "main"
    /\ UNCHANGED <<check_interval, cycle, payload, idx, recipients, alerts_sent,
                   cyclog, fetchlog, alerted, slept>>
    /\ UNCHANGED <<envVars, monVars, scVars>>
    /\ UNCHANGED unitVars

\* main, lines 423-438: compute the interval and enter the loop
MainStart ==
    /\ pc = "main"
    /\ check_interval' = CheckIntervalMinutes(env) * 60
    /\ pc' = "cycle"
    /\ UNCHANGED <<model, EMAIL_USERNAME, EMAIL_PASSWORD, cycle, payload, idx,
                   recipients, alerts_sent, cyclog, fetchlog, alerted, slept>>
    /\ UNCHANGED <<envVars, monVars, scVars>>
    /\ UNCHANGED unitVars

\* where process_earthquakes goes after the fetch, lines 377-387: "no_data"
\* and "no_recipients" return, "raise" leaves through main's except
\* Exception, "loop" enters the for-loop
AfterFetch(data, emails) ==
    IF data.shape \in {"none", "empty"} THEN "no_data"
    ELSE IF data.shape \in {"no_features", "features_null"} THEN "raise"
    ELSE IF emails = <<>> THEN "no_recipients"
    ELSE "loop"

\* process_earthquakes, lines 372-390: fetch, load the recipients
BeginCycleWith(primary, backup) ==
    LET got    == fetch_earthquake_data(primary, backup)
        loaded == load_email_recipients(store)
        reads  == got.data.shape = "collection"
        next   == AfterFetch(got.data, loaded.emails)
    IN /\ fetchlog' = [primary  |-> primary,
                        backup   |-> backup,
                        requests |-> got.requests,
                        data     |-> got.data,
                        path     |-> next]
       /\ payload' = IF reads THEN got.data.features ELSE <<>>
       /\ recipients' = IF reads THEN loaded.emails ELSE <<>>
       /\ store' = IF reads THEN loaded.store ELSE store
       /\ pc' = CASE next = "loop" -> "events"
                  [] next \in {"no_data", "no_recipients"} -> "sleep"
                  [] next = "raise" -> "stopped_error"
       /\ idx' = 1
       /\ alerts_sent' = 0
       /\ cyclog' = <<>>

BeginCycle ==
    /\ pc = "cycle"
    /\ cycle < MaxCycles
    /\ \E primary \in Responses :
         IF primary.kind = "ok"
         THEN BeginCycleWith(primary, Unasked)
         ELSE \E backup \in Responses : BeginCycleWith(primary, backup)
    /\ UNCHANGED <<model, EMAIL_USERNAME, EMAIL_PASSWORD, check_interval, cycle,
                   alerted, slept>>
    /\ UNCHANGED <<artifact, env, now, monVars, scVars>>
    /\ UNCHANGED unitVars

\* a slip in the isolation: an exception in one event ends the loop
NextIdx_abort(out, i, n) ==
    IF out.stage \in {"error_time", "error_score", "error_format"} THEN n + 1 ELSE i + 1

\* lines 393-419: where the for-loop goes on after the iteration at
\* position i of n ended as `out`; the except clause of line 418 only prints
NextIdx(out, i, n) == i + 1

\* one iteration of the for-loop, lines 393-419
ProcessEvent ==
    /\ pc = "events"
    /\ idx <= Len(payload)
    /\ \E mo \in ModelOutcomes : \E smtp \in CycleSmtpFailures :
         LET out == ProcessOne(FeedEvent(payload[idx]), now, model, mo,
                               recipients, EMAIL_USERNAME, EMAIL_PASSWORD, smtp)
         IN /\ cyclog' = Append(cyclog, out)
            /\ alerts_sent' = IF out.ok THEN alerts_sent + 1 ELSE alerts_sent
            /\ idx' = NextIdx(out, idx, Len(payload))
    /\ UNCHANGED <<pc, model, EMAIL_USERNAME, EMAIL_PASSWORD, check_interval, cycle,
                   payload, recipients, fetchlog, alerted, slept>>
    /\ UNCHANGED <<envVars, monVars, scVars>>
    /\ UNCHANGED unitVars

\* the loop is exhausted, line 421, and process_earthquakes returns
EndCycle ==
    /\ pc = "events"
    /\ idx > Len(payload)
    /\ pc' = "sleep"
    /\ UNCHANGED <<model, EMAIL_USERNAME, EMAIL_PASSWORD, check_interval, cycle,
                   payload, idx, recipients, alerts_sent, cyclog, fetchlog, alerted, slept>>
    /\ UNCHANGED <<envVars, monVars, scVars>>
    /\ UNCHANGED unitVars

\* ids handed to send_email_alert in the running cycle
CalledIds(log) == { log[i].id : i \in { j \in DOMAIN log : log[j].called } }

\* a slip in the scheduling: the wait doubled after a cycle without data
SleepSeconds_backoff(interval, failed) == IF failed THEN 2 * interval ELSE interval

\* line 442: the argument of time.sleep after a cycle, which does not
\* depend on how the cycle went
SleepSeconds(interval, failed) == interval

\* the cycle got no data from fetch_earthquake_data (it returned None)
FetchFailed(log) == log.path = "no_data" /\ log.data = NoData

\* both feeds were asked and neither answered 200 with a body that decodes
BothFeedsFailed(log) ==
    /\ log.primary.kind = "status"
    /\ log.backup.kind \in {"status", "transport", "malformed"}

\* the id of the first entry of the log that reached send_email_alert
FirstCalled(log) ==
    IF CalledIds(log) = {} THEN {}
    ELSE {log[CHOOSE i \in DOMAIN log :
                 log[i].called /\ \A j \in 1..(i - 1) : ~log[j].called].id}

\* main, lines 441-442: time.sleep(check_interval), then the next cycle
Sleep ==
    /\ pc = "sleep"
    /\ LET failed == BothFeedsFailed(fetchlog)
           secs   == SleepSeconds(check_interval, failed)
       IN /\ slept' = [secs |-> secs,
                       failures |-> IF failed THEN slept.failures + 1 ELSE 0]
          /\ now' = now + secs
    /\ cycle' = cycle + 1
    /\ alerted' = IF alerted = {} THEN FirstCalled(cyclog) ELSE alerted
    /\ pc' = "cycle"
    /\ payload' = <<>>
    /\ idx' = 1
    /\ cyclog' = <<>>
    /\ fetchlog' = NoFetch
    /\ UNCHANGED <<model, EMAIL_USERNAME, EMAIL_PASSWORD, check_interval,
                   recipients, alerts_sent>>
    /\ UNCHANGED <<artifact, env, store, monVars, scVars>>
    /\ UNCHANGED unitVars

\* main, line 443: KeyboardInterrupt anywhere inside the loop; the frame of
\* process_earthquakes is unwound and its locals are gone
Interrupt ==
    /\ pc \in {"cycle", "events", "sleep"}
    /\ pc' = "stopped_user"
    /\ payload' = <<>>
    /\ idx' = 1
    /\ recipients' = <<>>
    /\ alerts_sent' = 0
    /\ cyclog' = <<>>
    /\ fetchlog' = NoFetch
    /\ UNCHANGED <<model, EMAIL_USERNAME, EMAIL_PASSWORD, check_interval, cycle,
                   alerted, slept>>
    /\ UNCHANGED <<envVars, monVars, scVars>>
    /\ UNCHANGED unitVars

\* the model file is produced (tsunami_model.py is run) while a process runs
ArtifactAppears ==
    /\ artifact = "missing"
    /\ artifact' = "ok"
    /\ UNCHANGED <<env, store, now, alertVars, monVars, scVars>>
    /\ UNCHANGED unitVars

-----------------------------------------------------------------------------
(* tsunami_monitor.py as a process *)

\* what the monitor's model does on one row: predict and predict_proba;
\* the predicted class is the more probable one
MonitorOutcomes == {ModelRaises, ModelReturns(30), ModelReturns(80)}

\* lines 49-83 under the schema `schema`: the row handed to the model, a
\* value per schema feature; an event whose magType is "" carries no key
MonitorRowUnder(earthquake, schema) ==
    LET coords == earthquake.coords
        data == [magnitude |-> Get(earthquake.mag, 0),
                 depth     |-> CoordOr0(coords, 2),
                 latitude  |-> CoordOr0(coords, 1),
                 longitude |-> CoordOr0(coords, 0),
                 sig       |-> Get(earthquake.sig, 0),
                 gap       |-> Get(earthquake.gap, 0),
                 dmin      |-> Get(earthquake.dmin, 0),
                 mmi       |-> Get(earthquake.mmi, 0)]
        mag_type_col == "magType_" \o earthquake.magType
    IN [i \in 1..Len(schema) |->
          IF schema[i] \in DOMAIN data THEN data[schema[i]]
          ELSE IF schema[i] = mag_type_col THEN Num(1)
          ELSE Num(0)]

MonitorRow(earthquake) == MonitorRowUnder(earthquake, features)

\* process_earthquake: None (ok = FALSE) on any exception, else the result
process_earthquake(earthquake, mo) ==
    IF \/ ~earthquake.hasProps
       \/ ~earthquake.hasGeom
       \/ mo.raises
       \/ earthquake.time.kind # "num"
    THEN [ok |-> FALSE, id |-> earthquake.id, tsunami_predicted |-> FALSE,
          tsunami_probability |-> 0, row |-> <<>>]
    ELSE [ok |-> TRUE, id |-> earthquake.id, tsunami_predicted |-> mo.p > 50,
          tsunami_probability |-> mo.p, row |-> MonitorRow(earthquake)]

\* fetch_recent_earthquakes: data['features'], [] on any failure
fetch_recent_earthquakes(response) ==
    IF response.kind = "ok" /\ response.doc.shape = "collection"
    THEN response.doc.features
    ELSE <<>>

\* module import, lines 11-24: joblib.load is not guarded
MonImport ==
    /\ mon_pc = "import"
    /\ IF artifact = "ok"
       THEN mon_model' = "loaded" /\ mon_pc' = "fetch"
       ELSE mon_model' = mon_model /\ mon_pc' = "crashed"
    /\ UNCHANGED <<mon_payload, mon_idx, mon_log, mon_cycle>>
    /\ UNCHANGED <<envVars, alertVars, scVars>>
    /\ UNCHANGED unitVars

\* monitor_earthquakes, lines 111-120
MonFetch ==
    /\ mon_pc = "fetch"
    /\ \E response \in Responses :
         LET earthquakes == fetch_recent_earthquakes(response)
         IN /\ mon_payload' = earthquakes
            /\ mon_pc' = IF earthquakes = <<>> THEN "sleep" ELSE "events"
    /\ mon_idx' = 1
    /\ mon_log' = <<>>
    /\ UNCHANGED <<mon_model, mon_cycle>>
    /\ UNCHANGED <<envVars, alertVars, scVars>>
    /\ UNCHANGED unitVars

\* one iteration of the for-loop, lines 122-138
MonProcess ==
    /\ mon_pc = "events"
    /\ mon_idx <= Len(mon_payload)
    /\ \E mo \in MonitorOutcomes :
         mon_log' = Append(mon_log, process_earthquake(FeedEvent(mon_payload[mon_idx]), mo))
    /\ mon_idx' = mon_idx + 1
    /\ UNCHANGED <<mon_pc, mon_model, mon_payload, mon_cycle>>
    /\ UNCHANGED <<envVars, alertVars, scVars>>
    /\ UNCHANGED unitVars

\* lines 140-142: the pass is complete
MonEndPass ==
    /\ mon_pc = "events"
    /\ mon_idx > Len(mon_payload)
    /\ mon_pc' = "sleep"
    /\ UNCHANGED <<mon_model, mon_payload, mon_idx, mon_log, mon_cycle>>
    /\ UNCHANGED <<envVars, alertVars, scVars>>
    /\ UNCHANGED unitVars

\* time.sleep(300), lines 117 and 142, then the next pass
MonSleep ==
    /\ mon_pc = "sleep"
    /\ mon_cycle < MaxCycles
    /\ now' = now + MONITOR_SLEEP
    /\ mon_cycle' = mon_cycle + 1
    /\ mon_pc' = "fetch"
    /\ mon_payload' = <<>>
    /\ mon_idx' = 1
    /\ mon_log' = <<>>
    /\ UNCHANGED mon_model
    /\ UNCHANGED <<artifact, env, store, alertVars, scVars>>
    /\ UNCHANGED unitVars

\* lines 145-148: KeyboardInterrupt
MonInterrupt ==
    /\ mon_pc \in {"fetch", "events", "sleep"}
    /\ mon_pc' = "stopped_user"
    /\ mon_payload' = <<>>
    /\ mon_idx' = 1
    /\ mon_log' = <<>>
    /\ UNCHANGED <<mon_model, mon_cycle>>
    /\ UNCHANGED <<envVars, alertVars, scVars>>
    /\ UNCHANGED unitVars

-----------------------------------------------------------------------------
(* One call of predict_tsunami_risk and of the formatters on a free input *)

ScMagnitudes == {Absent, Null} \cup { Num(m) : m \in {59, 60, 62, 64, 65, 74, 75, 78} }
ScFlags      == {Absent, Num(0), Num(1)}
ScGeometries == { [hasGeom |-> FALSE, coords |-> <<>>],
                  [hasGeom |-> TRUE, coords |-> <<142, 38>>],
                  [hasGeom |-> TRUE, coords |-> <<142, 38, 49>>],
                  [hasGeom |-> TRUE, coords |-> <<142, 38, 50>>],
                  [hasGeom |-> TRUE, coords |-> <<142, 38, 100>>] }
ScEvents ==
    { Event("e", TRUE, m, t, Num(StartNow * 1000), g.hasGeom, g.coords, "mb", Num(5)) :
        m \in ScMagnitudes, t \in ScFlags, g \in ScGeometries }
ScProbabilities == {0, 19, 20, 39, 40, 59, 60, 65, 69, 70, 79, 80, 100}
ScOutcomes == {ModelRaises} \cup { ModelReturns(p) : p \in ScProbabilities }

\* the caller picks an event; the model file was loadable or not
ScInput ==
    /\ sc_pc = "idle"
    /\ sc_event' \in ScEvents
    /\ sc_model' \in {"loaded", "none"}
    /\ sc_outcome' \in ScOutcomes
    /\ sc_pc' = "input"
    /\ UNCHANGED <<sc_result, sc_format>>
    /\ UNCHANGED <<envVars, alertVars, monVars>>
    /\ UNCHANGED unitVars

\* predict_tsunami_risk(sc_event)
ScScore ==
    /\ sc_pc = "input"
    /\ sc_result' = predict_tsunami_risk(sc_event, sc_model, sc_outcome)
    /\ sc_pc' = "scored"
    /\ UNCHANGED <<sc_event, sc_model, sc_outcome, sc_format>>
    /\ UNCHANGED <<envVars, alertVars, monVars>>
    /\ UNCHANGED unitVars

\* the dispatch gate of process_earthquakes, format_email_subject,
\* format_email_body and the dashboard's tier on the probability assessed
ScFormat ==
    /\ sc_pc = "scored"
    /\ ~sc_result.raised
    /\ LET body == format_email_body(sc_event, sc_result.prob)
       IN sc_format' = [gate    |-> AboveGate(sc_result.prob),
                        subject |-> format_email_subject(sc_event, sc_result.prob),
                        body_ok |-> body.ok,
                        level   |-> body.level,
                        tier    |-> risk_level(sc_result.prob)]
    /\ sc_pc' = "labelled"
    /\ UNCHANGED <<sc_event, sc_model, sc_outcome, sc_result>>
    /\ UNCHANGED <<envVars, alertVars, monVars>>
    /\ UNCHANGED unitVars

-----------------------------------------------------------------------------
(* tsunami_dashboard.py: one call of predict_tsunami_risk(df) *)

\* the magnitude types a feed names; a column of the schema is a magnitude
\* type column when it is "magType_" followed by one of them
MagTypes == {"mb", "md", "ml", "ms", "mw", "mwb", "mwc", "mwr", "mww", "unknown"}
IsMagTypeColumn(feature) == \E t \in MagTypes : feature = "magType_" \o t
MagTypeOf(feature) == CHOOSE t \in MagTypes : feature = "magType_" \o t

\* fetch_recent_earthquakes, lines 279-292: the row of df built from one
\* feature; an event whose magType is "" carries no 'magType' key
DashRecord(earthquake) ==
    [magnitude |-> Get(earthquake.mag, 0),
     depth     |-> CoordOr0(earthquake.coords, 2),
     latitude  |-> CoordOr0(earthquake.coords, 1),
     longitude |-> CoordOr0(earthquake.coords, 0),
     sig       |-> Get(earthquake.sig, 0),
     gap       |-> Get(earthquake.gap, 0),
     dmin      |-> Get(earthquake.dmin, 0),
     mmi       |-> Get(earthquake.mmi, 0),
     magType   |-> IF earthquake.magType = "" THEN "unknown" ELSE earthquake.magType]

\* the columns of such a frame that pandas types as numbers
DashColumns == {"magnitude", "depth", "latitude", "longitude", "sig", "gap", "dmin", "mmi"}
IsNumericColumn(df, col) == \E i \in DOMAIN df : df[i][col].kind = "num"

\* prepare_data_for_prediction, lines 302-325: per row, a value per schema
\* feature; fillna(0) reaches the columns with a numeric dtype only
prepare_data_for_prediction(df, schema) ==
    [i \in DOMAIN df |->
       [k \in 1..Len(schema) |->
          IF IsMagTypeColumn(schema[k])
          THEN IF df[i].magType = MagTypeOf(schema[k]) THEN Num(1) ELSE Num(0)
          ELSE IF schema[k] \notin DashColumns THEN Num(0)
          ELSE IF df[i][schema[k]].kind = "null" /\ IsNumericColumn(df, schema[k])
          THEN Num(0)
          ELSE df[i][schema[k]]]]

\* what the model does on the frame: raise, or a probability per row
ProbaRaises     == [raises |-> TRUE, p |-> <<>>]
ProbaReturns(p) == [raises |-> FALSE, p |-> p]

\* tsunami_dashboard.predict_tsunami_risk, lines 328-357
dashboard_predict_tsunami_risk(df, mdl, proba) ==
    IF mdl = "none" THEN [i \in DOMAIN df |-> "N/A"]
    ELSE IF proba.raises THEN [i \in DOMAIN df |-> "Error"]
    ELSE [i \in DOMAIN df |-> risk_level(proba.p[i])]

DashEvents == {FeedEvent("official"), FeedEvent("moderate"), FeedEvent("nullmag")}
DashProbabilities == {0, 19, 20, 39, 40, 59, 60, 79, 80, 100}
DashFrames == UNION { [1..n -> { DashRecord(e) : e \in DashEvents }] : n \in 0..MaxFeed }

DashInit ==
    /\ dash_pc = "idle"
    /\ dash_model = "none"
    /\ dash_df = <<>>
    /\ dash_proba = ProbaRaises
    /\ dash_data = <<>>
    /\ dash_levels = <<>>

\* the page is refreshed: a frame was fetched, the model was loadable or not
DashInput ==
    /\ dash_pc = "idle"
    /\ dash_df' \in DashFrames
    /\ dash_model' \in {"loaded", "none"}
    /\ dash_proba' \in {ProbaRaises}
                       \cup { ProbaReturns(p) : p \in [DOMAIN dash_df' -> DashProbabilities] }
    /\ dash_pc' = "input"
    /\ UNCHANGED <<dash_data, dash_levels>>
    /\ UNCHANGED <<envVars, alertVars, monVars, scVars, nzVars, ld_returns, restVars>>

\* predict_tsunami_risk(dash_df)
DashPredict ==
    /\ dash_pc = "input"
    /\ dash_data' = IF dash_model = "none" THEN <<>>
                    ELSE prepare_data_for_prediction(dash_df, features)
    /\ dash_levels' = dashboard_predict_tsunami_risk(dash_df, dash_model, dash_proba)
    /\ dash_pc' = "done"
    /\ UNCHANGED <<dash_model, dash_df, dash_proba>>
    /\ UNCHANGED <<envVars, alertVars, monVars, scVars, nzVars, ld_returns, restVars>>

-----------------------------------------------------------------------------
(* The feature builders of the three entry points on one event *)

\* the default list of tsunami_dashboard.py, line 51
DashboardDefaultFeatures ==
    NumericFeatures \o <<"magType_mb", "magType_md", "magType_ml", "magType_ms",
                         "magType_mw", "magType_mwb", "magType_mwc", "magType_mwr">>

\* `features` as the entry points can find it: the default lists,
\* model_features.txt as tsunami_model.py writes it, and files listing the
\* columns in another order, fewer of them, or one no builder produces
Schemas ==
    { NumericFeatures,
      DashboardDefaultFeatures,
      features,
      <<"magType_mww", "depth", "magnitude", "magType_mb", "mmi">>,
      <<"magnitude", "nst", "depth">> }

NzEvents ==
    { Event("e", p, m, Num(0), Num(StartNow * 1000), g.hasGeom, g.coords, t, a) :
        p \in BOOLEAN,
        m \in {Num(62), Absent, Null},
        g \in { [hasGeom |-> FALSE, coords |-> <<>>],
                [hasGeom |-> TRUE, coords |-> <<>>],
                [hasGeom |-> TRUE, coords |-> <<142, 38>>],
                [hasGeom |-> TRUE, coords |-> Shallow] },
        t \in {"mb", "mww", "ml", ""},
        a \in {Num(5), Null, Absent} }

NoRow == [ok |-> FALSE, row |-> <<>>]

\* the row each entry point builds for one event: email_alert's
\* prepare_prediction_data, lines 49-83 of tsunami_monitor.process_earthquake,
\* and the dashboard's fetch_recent_earthquakes followed by
\* prepare_data_for_prediction
BuildRows(earthquake, schema) ==
    IF ~earthquake.hasProps \/ ~earthquake.hasGeom
    THEN [email |-> NoRow, monitor |-> NoRow, dashboard |-> NoRow]
    ELSE [email     |-> [ok |-> TRUE, row |-> PreparedRow(earthquake, schema)],
          monitor   |-> [ok |-> TRUE, row |-> MonitorRowUnder(earthquake, schema)],
          dashboard |-> [ok |-> TRUE,
                         row |-> prepare_data_for_prediction(<<DashRecord(earthquake)>>,
                                                             schema)[1]]]

NzInit ==
    /\ nz_pc = "idle"
    /\ nz_event = FeedEvent("official")
    /\ nz_schema = NumericFeatures
    /\ nz_rows = [email |-> NoRow, monitor |-> NoRow, dashboard |-> NoRow]

\* the processes were started with some model_features.txt and meet an event
NzInput ==
    /\ nz_pc = "idle"
    /\ nz_event' \in NzEvents
    /\ nz_schema' \in Schemas
    /\ nz_pc' = "input"
    /\ UNCHANGED nz_rows
    /\ UNCHANGED <<envVars, alertVars, monVars, scVars, dashVars, ld_returns, restVars>>

NzBuild ==
    /\ nz_pc = "input"
    /\ nz_rows' = BuildRows(nz_event, nz_schema)
    /\ nz_pc' = "built"
    /\ UNCHANGED <<nz_event, nz_schema>>
    /\ UNCHANGED <<envVars, alertVars, monVars, scVars, dashVars, ld_returns, restVars>>

-----------------------------------------------------------------------------
(* Successive calls of load_email_recipients *)

\* calls explored
MaxLoads == 2

LoadAddrs == { default_emails[1], default_emails[2],
               Addr("typo", TRUE, FALSE), Addr("ops", TRUE, TRUE) }
LoadStores ==
    { StoreAbsent(w) : w \in BOOLEAN } \cup { StoreCorrupt(w) : w \in BOOLEAN }
    \cup { StoreList(l, w) : l \in UNION { [1..n -> LoadAddrs] : n \in 0..2 },
                             w \in BOOLEAN }

\* load_email_recipients(): what it found, what it returned, and whether it
\* wrote the default list to emails.txt
LoadRecipients ==
    /\ Len(ld_returns) < MaxLoads
    /\ LET loaded == load_email_recipients(store)
       IN /\ ld_returns' = Append(ld_returns,
                                  [found    |-> store.state,
                                   writable |-> store.writable,
                                   emails   |-> loaded.emails,
                                   wrote    |-> loaded.store # store])
          /\ store' = loaded.store
    /\ UNCHANGED <<artifact, env, now, alertVars, monVars, scVars, dashVars, nzVars>>
    /\ UNCHANGED restVars

-----------------------------------------------------------------------------
(* email_alert.py: the body of the loop of process_earthquakes, one feature
   at a time, on features whose `time` is anything a feed can carry *)

MaxIterations == 2

\* properties.time: absent, null, the epoch, an hour and a millisecond after
\* the clock, the clock, and the two sides of the recency window
ItTimes ==
    {Absent, Null, Num(0), Num(StartNow * 1000 + 3600000), Num(StartNow * 1000 + 1),
     Num(StartNow * 1000), Num((StartNow - RECENCY_WINDOW) * 1000),
     Num((StartNow - RECENCY_WINDOW) * 1000 - 1)}

ItEvents ==
    { Event("e", TRUE, m, t, time, TRUE, Shallow, "mww", Num(5)) :
        m \in {Num(50), Num(78)}, t \in {Num(0), Num(1)}, time \in ItTimes }

\* lines 394-419 on one feature, at the clock `now`, without a model file,
\* with two recipients and credentials; the mail server accepts or refuses
\* the login
IterateOne ==
    /\ Len(it_log) < MaxIterations
    /\ \E e \in ItEvents : \E smtp \in {"none", "login"} :
         it_log' = Append(it_log,
                          [event |-> e,
                           out   |-> ProcessOne(e, now, "none", ModelRaises, default_emails,
                                                "user", "password", smtp)])
    /\ UNCHANGED <<envVars, alertVars, monVars, scVars, dashVars, nzVars, ld_returns>>
    /\ UNCHANGED supVars

ItInit == it_log = <<>>

-----------------------------------------------------------------------------
(* tsunami_system.py: the supervisor and the two processes it starts *)

MaxChildren == 4

DashboardScript == "tsunami_dashboard.py"
AlertScript     == "email_alert.py"

\* a process started by subprocess.Popen([sys.executable, script])
Child(script, state) == [script |-> script, state |-> state]

\* Popen.poll() is None: the process the handle refers to is running
Running(handle) == sup_procs[handle].state = "alive"

\* check_files, lines 7-21: False without the model file; writes the default
\* list when emails.txt does not exist, which raises when it cannot be opened
check_files(art, st) ==
    IF art # "ok" THEN [returns |-> FALSE, raises |-> FALSE, store |-> st]
    ELSE IF st.state # "absent" THEN [returns |-> TRUE, raises |-> FALSE, store |-> st]
    ELSE IF st.writable
    THEN [returns |-> TRUE, raises |-> FALSE, store |-> StoreList(default_emails, TRUE)]
    ELSE [returns |-> FALSE, raises |-> TRUE, store |-> st]

\* main, lines 37-39
SupCheckFiles ==
    /\ sup_pc = "check"
    /\ LET checked == check_files(artifact, store)
       IN /\ store' = checked.store
          /\ sup_pc' = IF checked.raises THEN "crashed"
                       ELSE IF checked.returns THEN "start_dashboard" ELSE "exited"
    /\ UNCHANGED <<dashboard_process, alert_process, sup_procs>>
    /\ UNCHANGED <<artifact, env, now, alertVars, monVars, scVars, dashVars, nzVars,
                   ld_returns, it_log>>

\* the script the call at this position of main starts, and where main is
\* once Popen has started it and its result is still to be assigned
ScriptAt(at) == IF at \in {"start_dashboard", "restart_dashboard"}
                THEN DashboardScript ELSE AlertScript
BindAfter(at) ==
    CASE at = "start_dashboard"   -> "bind_dashboard"
      [] at = "start_alert"       -> "bind_alert"
      [] at = "restart_dashboard" -> "rebind_dashboard"
      [] at = "restart_alert"     -> "rebind_alert"

\* start_dashboard and start_email_alert_system, lines 23-31: Popen starts
\* the process
SupStart ==
    /\ sup_pc \in {"start_dashboard", "start_alert", "restart_dashboard", "restart_alert"}
    /\ Len(sup_procs) < MaxChildren
    /\ sup_procs' = Append(sup_procs, Child(ScriptAt(sup_pc), "alive"))
    /\ sup_pc' = BindAfter(sup_pc)
    /\ UNCHANGED <<dashboard_process, alert_process>>
    /\ UNCHANGED <<envVars, alertVars, monVars, scVars, dashVars, nzVars, ld_returns, it_log>>

\* lines 43, 47, 58, 62: the Popen returned is assigned to main's local
SupBind ==
    /\ sup_pc \in {"bind_dashboard", "bind_alert", "rebind_dashboard", "rebind_alert"}
    /\ dashboard_process' = IF sup_pc \in {"bind_dashboard", "rebind_dashboard"}
                            THEN Len(sup_procs) ELSE dashboard_process
    /\ alert_process' = IF sup_pc \in {"bind_alert", "rebind_alert"}
                        THEN Len(sup_procs) ELSE alert_process
    /\ sup_pc' = CASE sup_pc = "bind_dashboard"   -> "start_alert"
                   [] sup_pc = "bind_alert"       -> "poll_dashboard"
                   [] sup_pc = "rebind_dashboard" -> "poll_alert"
                   [] sup_pc = "rebind_alert"     -> "sleep"
    /\ UNCHANGED sup_procs
    /\ UNCHANGED <<envVars, alertVars, monVars, scVars, dashVars, nzVars, ld_returns, it_log>>

\* lines 56 and 60: poll() of the process held; a process that has ended is
\* started again in the same pass
SupPoll ==
    /\ sup_pc \in {"poll_dashboard", "poll_alert"}
    /\ sup_pc' = IF sup_pc = "poll_dashboard"
                 THEN IF Running(dashboard_process) THEN "poll_alert" ELSE "restart_dashboard"
                 ELSE IF Running(alert_process) THEN "sleep" ELSE "restart_alert"
    /\ UNCHANGED <<dashboard_process, alert_process, sup_procs>>
    /\ UNCHANGED <<envVars, alertVars, monVars, scVars, dashVars, nzVars, ld_returns, it_log>>

\* line 64: time.sleep(10), then the next pass of the loop
SupSleep ==
    /\ sup_pc = "sleep"
    /\ sup_pc' = "poll_dashboard"
    /\ UNCHANGED <<dashboard_process, alert_process, sup_procs>>
    /\ UNCHANGED <<envVars, alertVars, monVars, scVars, dashVars, nzVars, ld_returns, it_log>>

\* a started process ends on its own (a crash, or its own exit)
ChildExits ==
    /\ \E i \in DOMAIN sup_procs :
         /\ sup_procs[i].state = "alive"
         /\ sup_procs' = [sup_procs EXCEPT ![i].state = "exited"]
    /\ UNCHANGED <<sup_pc, dashboard_process, alert_process>>
    /\ UNCHANGED <<envVars, alertVars, monVars, scVars, dashVars, nzVars, ld_returns, it_log>>

\* the positions of main inside the try block of lines 52-70
InsideTry == {"poll_dashboard", "restart_dashboard", "rebind_dashboard", "poll_alert",
              "restart_alert", "rebind_alert", "sleep"}
BeforeTry == {"check", "start_dashboard", "bind_dashboard", "start_alert", "bind_alert"}

\* Popen.terminate() on the handles main holds
Terminated(procs, handles) ==
    [i \in DOMAIN procs |->
        IF i \in handles /\ procs[i].state = "alive"
        THEN Child(procs[i].script, "terminated") ELSE procs[i]]

\* KeyboardInterrupt: inside the try block the handler of lines 66-70
\* terminates the two processes main holds; before it nothing catches it
SupInterrupt ==
    /\ sup_pc \in InsideTry \cup BeforeTry
    /\ IF sup_pc \in InsideTry
       THEN /\ sup_procs' = Terminated(sup_procs, {dashboard_process, alert_process})
            /\ sup_pc' = "stopped"
       ELSE /\ sup_procs' = sup_procs
            /\ sup_pc' = "killed"
    /\ UNCHANGED <<dashboard_process, alert_process>>
    /\ UNCHANGED <<envVars, alertVars, monVars, scVars, dashVars, nzVars, ld_returns, it_log>>

SupInit ==
    /\ sup_pc = "check"
    /\ dashboard_process = 0
    /\ alert_process = 0
    /\ sup_procs = <<>>

UnitInit == DashInit /\ NzInit /\ ld_returns = <<>> /\ ItInit /\ SupInit

Init == EnvInit /\ AlertInit /\ MonInit /\ ScInit /\ UnitInit

Next ==
    \/ Import
    \/ MainStart
    \/ BeginCycle
    \/ ProcessEvent
    \/ EndCycle
    \/ Sleep
    \/ Interrupt
    \/ ArtifactAppears

Spec == Init /\ [][Next]_vars

MonNext ==
    \/ MonImport
    \/ MonFetch
    \/ MonProcess
    \/ MonEndPass
    \/ MonSleep
    \/ MonInterrupt
    \/ ArtifactAppears

\* the monitor alone: the recipient store and the mail settings play no part
MonitorInit ==
    /\ artifact \in {"ok", "missing"}
    /\ env = DotEnv
    /\ store = StoreAbsent(TRUE)
    /\ now = StartNow
    /\ AlertInit /\ MonInit /\ ScInit /\ UnitInit

MonitorSpec == MonitorInit /\ [][MonNext]_vars

ScNext ==
    \/ ScInput
    \/ ScScore
    \/ ScFormat

\* the scorer alone
ScoreInit ==
    /\ artifact = "ok"
    /\ env = DotEnv
    /\ store = StoreAbsent(TRUE)
    /\ now = StartNow
    /\ AlertInit /\ MonInit /\ ScInit /\ UnitInit

ScoreSpec == ScoreInit /\ [][ScNext]_vars

DashNext ==
    \/ DashInput
    \/ DashPredict

\* the dashboard's scorer alone
DashSpec == ScoreInit /\ [][DashNext]_vars

NzNext ==
    \/ NzInput
    \/ NzBuild

\* the feature builders alone
NormalizeSpec == ScoreInit /\ [][NzNext]_vars

\* the recipient store alone, in any condition emails.txt can be in
LoadInit ==
    /\ artifact = "ok"
    /\ env = DotEnv
    /\ store \in LoadStores
    /\ now = StartNow
    /\ AlertInit /\ MonInit /\ ScInit /\ UnitInit

LoadNext == LoadRecipients

LoadSpec == LoadInit /\ [][LoadNext]_vars

\* the loop body alone
IterationInit ==
    /\ artifact = "missing"
    /\ env = LiteralEnv
    /\ store = StoreAbsent(TRUE)
    /\ now = StartNow
    /\ AlertInit /\ MonInit /\ ScInit /\ UnitInit

IterationNext == IterateOne

IterationSpec == IterationInit /\ [][IterationNext]_vars

\* the supervisor alone, with the model file and emails.txt in any condition
SupervisorInit ==
    /\ artifact \in {"ok", "missing"}
    /\ env = DotEnv
    /\ store \in {StoreAbsent(TRUE), StoreAbsent(FALSE), StoreCorrupt(TRUE),
                  StoreList(default_emails, TRUE)}
    /\ now = StartNow
    /\ AlertInit /\ MonInit /\ ScInit /\ UnitInit

SupervisorNext ==
    \/ SupCheckFiles
    \/ SupStart
    \/ SupBind
    \/ SupPoll
    \/ SupSleep
    \/ ChildExits
    \/ SupInterrupt

SupervisorSpec == SupervisorInit /\ [][SupervisorNext]_vars

-----------------------------------------------------------------------------
(* Properties of the alerting loop (email_alert.py), under Spec *)

\* age of the event of log entry r at the running cycle's `now`, milliseconds
AgeMs(r) == now * 1000 - Get(FeedEvent(r.id).time, 0).v

\* C1: an event id handed to send_email_alert in one cycle is not handed to
\* it again in a later cycle of the same process.
C1_NoRedispatch ==
    \A i \in DOMAIN cyclog : cyclog[i].called => cyclog[i].id \notin alerted

\* C2: an event more than 1800 s older than `now` is never scored, formatted
\* or dispatched, whatever it carries; an event at most 1800 s old (1800 s
\* included) passes the recency test.
C2_RecencyWindow ==
    \A i \in DOMAIN cyclog :
        LET r == cyclog[i]
            e == FeedEvent(r.id)
        IN (e.hasProps /\ e.time.kind # "null") =>
             /\ AgeMs(r) > 1800 * 1000 =>
                  /\ r.stage = "too_old"
                  /\ ~r.scored /\ ~r.called /\ r.label = "none" /\ r.steps = <<>>
             /\ AgeMs(r) <= 1800 * 1000 => r.stage # "too_old" /\ r.scored

\* C2 witness: in one cycle an official-flag event exactly 1800 s old was
\* dispatched and one a millisecond older was rejected unscored.
C2_Witness ==
    \E i \in DOMAIN cyclog : \E j \in DOMAIN cyclog :
        /\ AgeMs(cyclog[i]) = 1800 * 1000 /\ cyclog[i].called
        /\ AgeMs(cyclog[j]) = 1800 * 1000 + 1 /\ cyclog[j].stage = "too_old"
        /\ FeedEvent(cyclog[j].id).tsunami = Num(1)

\* C3: main's loop is never left through its `except Exception` exit.
C3_NoErrorExit == pc # "stopped_error"

\* C9 as stated: an assessed event is handed to send_email_alert if and
\* only if its probability is >= 0.4.
C9_GateIff ==
    \A i \in DOMAIN cyclog :
        (cyclog[i].scored /\ ~cyclog[i].raised) =>
            (cyclog[i].called <=> cyclog[i].prob >= 40)

\* C9 amended: an assessed event is handed to send_email_alert if and only
\* if its probability is >= 0.4 and formatting the body does not raise; from
\* 0.4 on the subject is formatted, exactly 0.4 is labelled MEDIUM, and below
\* 0.4 nothing is formatted or sent.
C9_GateIffFormatted ==
    \A i \in DOMAIN cyclog :
        LET r == cyclog[i]
        IN (r.scored /\ ~r.raised) =>
             /\ r.called <=> (r.prob >= 40 /\ FeedEvent(r.id).hasGeom)
             /\ r.prob >= 40 => r.label \in {"MEDIUM", "HIGH"}
             /\ r.prob = 40 => r.label = "MEDIUM"
             /\ r.prob < 40 =>
                  r.label = "none" /\ r.level = "none" /\ ~r.called /\ r.steps = <<>>

\* C9 witness: an event assessed at exactly 0.4 was handed to
\* send_email_alert under a MEDIUM subject.
C9_Witness ==
    \E i \in DOMAIN cyclog :
        cyclog[i].prob = 40 /\ cyclog[i].called /\ cyclog[i].label = "MEDIUM"

-----------------------------------------------------------------------------
(* Properties of the monitor (tsunami_monitor.py), under MonitorSpec *)

\* C8: a polling process whose model file cannot be loaded at start still
\* starts and runs its cycles; it never dies while importing.
C8_StartsWithoutArtifact == mon_pc # "crashed"

-----------------------------------------------------------------------------
(* Properties of the scorer and the formatters, under ScoreSpec *)

ScDone == sc_pc \in {"scored", "labelled"}

\* neither override fires on the event and its magnitude can be compared
ScNoOverride ==
    /\ sc_event.tsunami # Num(1)
    /\ Get(sc_event.mag, 0).kind = "num"
    /\ Get(sc_event.mag, 0).v < 75

ScHasDepth == sc_event.hasGeom /\ Len(sc_event.coords) >= 3

\* the model path is entered and fails: no row, or predict_proba raises
ScModelFails ==
    sc_model = "loaded" /\ (~sc_event.hasGeom \/ sc_outcome.raises)

\* C4: an event carrying the official flag is assessed at 1.0 with the
\* official reason, whatever its magnitude, model loaded or not, and the
\* model is not invoked.
C4_OfficialOverride ==
    (ScDone /\ sc_event.tsunami = Num(1)) =>
        /\ ~sc_result.raised
        /\ sc_result.prob = 100
        /\ sc_result.reason = "official"
        /\ ~sc_result.invoked /\ ~sc_result.prepared

\* C4 witness: a flagged magnitude-7.8 event was scored 1.0 with a model loaded.
C4_Witness ==
    /\ sc_pc = "scored"
    /\ sc_event.tsunami = Num(1) /\ sc_event.mag = Num(78)
    /\ sc_model = "loaded"
    /\ sc_result.prob = 100

\* C5: an unflagged event of magnitude >= 7.5 is assessed at 0.9 with the
\* magnitude reason, model loaded, absent or raising, and the model is not
\* invoked.
C5_MagnitudeOverride ==
    (/\ ScDone
     /\ sc_event.tsunami # Num(1)
     /\ sc_event.mag.kind = "num" /\ sc_event.mag.v >= 75) =>
        /\ ~sc_result.raised
        /\ sc_result.prob = 90
        /\ sc_result.reason = "very_high_magnitude"
        /\ ~sc_result.invoked /\ ~sc_result.prepared

\* C5 witness: magnitude exactly 7.5, model loaded and bound to raise, scored 0.9.
C5_Witness ==
    /\ sc_pc = "scored"
    /\ sc_event.tsunami = Num(0) /\ sc_event.mag = Num(75)
    /\ sc_model = "loaded" /\ sc_outcome = ModelRaises
    /\ sc_result.prob = 90

\* C6: with no override and a model loaded, a failing model path yields the
\* heuristic result; no exception leaves predict_tsunami_risk.
C6_ModelFailureFallsBack ==
    (ScDone /\ ScNoOverride /\ ScModelFails) =>
        /\ ~sc_result.raised
        /\ sc_result.reason \in {"shallow_large", "moderate", "low_magnitude"}

C10_SubjectLabels ==
    sc_pc = "labelled" =>
        LET p == sc_result.prob
            l == sc_format.subject
        IN /\ l \in {"HIGH", "MEDIUM", "LOW"}
           /\ l = "HIGH" <=> p >= 70
           /\ l = "MEDIUM" <=> (p >= 40 /\ p < 70)
           /\ l = "LOW" <=> p < 40
           /\ p = 65 => (sc_format.tier = "High" /\ l = "MEDIUM")

\* C10 witness: probability 0.65 labelled MEDIUM in the subject, tier High.
C10_Witness ==
    /\ sc_pc = "labelled"
    /\ sc_result.prob = 65
    /\ sc_format.subject = "MEDIUM" /\ sc_format.tier = "High"

-----------------------------------------------------------------------------
(* Properties of the dashboard's tiers (tsunami_dashboard.py), under DashSpec *)

Tiers == <<"Very Low", "Low", "Moderate", "High", "Very High">>
TierRank(level) == CHOOSE k \in DOMAIN Tiers : Tiers[k] = level

\* the model answered: the list returned holds tiers
DashTiered == dash_pc = "done" /\ dash_model = "loaded" /\ ~dash_proba.raises

\* C11: every probability of [0,1] gets one of the five tiers, a row with a
\* larger probability never gets a lower tier than a row with a smaller
\* one, 0.2, 0.4, 0.6 and 0.8 get Low, Moderate, High and Very High, and
\* 1.0 gets Very High.
C11_TiersTotalMonotone ==
    DashTiered =>
        /\ DOMAIN dash_levels = DOMAIN dash_df
        /\ \A i \in DOMAIN dash_levels :
             LET p == dash_proba.p[i]
                 l == dash_levels[i]
             IN /\ \E k \in DOMAIN Tiers : l = Tiers[k]
                /\ p = 20 => l = "Low"
                /\ p = 40 => l = "Moderate"
                /\ p = 60 => l = "High"
                /\ p = 80 => l = "Very High"
                /\ p = 100 => l = "Very High"
                /\ p = 0 => l = "Very Low"
        /\ \A i \in DOMAIN dash_levels : \A j \in DOMAIN dash_levels :
             dash_proba.p[i] <= dash_proba.p[j] =>
                 TierRank(dash_levels[i]) <= TierRank(dash_levels[j])

\* C11 witness: one frame with a row at 0.39 and a row at 0.4, tiered Low
\* and Moderate.
C11_Witness ==
    /\ DashTiered
    /\ \E i \in DOMAIN dash_levels : \E j \in DOMAIN dash_levels :
         /\ dash_proba.p[i] = 39 /\ dash_levels[i] = "Low"
         /\ dash_proba.p[j] = 40 /\ dash_levels[j] = "Moderate"

-----------------------------------------------------------------------------
(* Properties of the fetch and of the cycle around it, under Spec *)

\* how often the backup feed was requested by the running cycle's fetch
BackupRequests(log) ==
    Cardinality({ i \in DOMAIN log.requests : log.requests[i] = "BACKUP_API_URL" })

\* C12: whenever the primary attempt fails (non-success status, the request
\* raising, or JSON decoding raising) the secondary feed is requested
\* exactly once; its data is returned when that attempt succeeds, and the
\* failure value is returned only when both attempts failed.
C12_BackupOnAnyFailure ==
    fetchlog.path # "none" =>
        /\ fetchlog.primary.kind # "ok" => BackupRequests(fetchlog) = 1
        /\ fetchlog.primary.kind = "ok" => BackupRequests(fetchlog) = 0
        /\ (fetchlog.primary.kind # "ok" /\ fetchlog.backup.kind = "ok") =>
               fetchlog.data = fetchlog.backup.doc
        /\ fetchlog.data = NoData =>
               (fetchlog.primary.kind # "ok" /\ fetchlog.backup.kind # "ok")

\* the primary feed answered a non-200 status and the backup feed 200 with a
\* document that holds a `features` list
BackupServed ==
    /\ fetchlog.primary.kind = "status"
    /\ fetchlog.backup.kind = "ok"
    /\ fetchlog.backup.doc.shape = "collection"

C14_FailedCycleNormalInterval ==
    /\ BothFeedsFailed(fetchlog) => FetchFailed(fetchlog)
    /\ FetchFailed(fetchlog) => (cyclog = <<>> /\ alerts_sent = 0 /\ pc = "sleep")
    /\ pc \in {"cycle", "events", "sleep"} => now = StartNow + cycle * check_interval
    /\ cycle > 0 => slept.secs = check_interval
    /\ slept.failures > 0 => slept.secs = check_interval

\* C14 witness: both feeds failed in two cycles in a row, and the third
\* cycle is due two intervals after the first.
C14_Witness ==
    /\ pc = "cycle"
    /\ slept.failures = 2
    /\ now = StartNow + 2 * check_interval

-----------------------------------------------------------------------------
(* Properties of the for-loop of process_earthquakes, under Spec *)

ErrorStages == {"error_time", "error_score", "error_format"}

\* what the model and the mail server did in the iteration that left r
ModelDid(r) == IF r.reason = "model" THEN ModelReturns(r.prob) ELSE ModelRaises
SmtpDid(r)  == IF Len(r.steps) = Len(SmtpSteps) THEN "none" ELSE SmtpSteps[Len(r.steps) + 1]

\* the log entry at position i is what the iteration on payload[i] leaves
\* when it runs on its own, with the same model and mail server behaviour
OnItsOwn(i) ==
    cyclog[i] = ProcessOne(FeedEvent(payload[i]), now, model, ModelDid(cyclog[i]),
                           recipients, EMAIL_USERNAME, EMAIL_PASSWORD, SmtpDid(cyclog[i]))

\* C15: an exception while processing one event (missing properties or
\* geometry, null magnitude, fewer than three coordinates, formatter error)
\* ends that event only: the loop reaches every event of the payload, each
\* later event gets the outcome it would get on its own, and the alerts
\* counted so far stay counted.
C15_PerEventIsolation ==
    fetchlog.path = "loop" =>
        /\ pc \in {"events", "sleep"}
        /\ Len(cyclog) = idx - 1
        /\ pc = "sleep" => Len(cyclog) = Len(payload)
        /\ \A i \in DOMAIN cyclog :
             cyclog[i].id = payload[i] /\ OnItsOwn(i)
        /\ alerts_sent = Cardinality({ i \in DOMAIN cyclog : cyclog[i].ok })

\* C15 witness: in one cycle an event failed with an exception and the
\* event after it was sent, and the cycle counted one alert.
C15_Witness ==
    /\ pc = "sleep"
    /\ alerts_sent = 1
    /\ \E i \in DOMAIN cyclog : \E j \in DOMAIN cyclog :
         /\ i < j
         /\ cyclog[i].stage \in ErrorStages
         /\ cyclog[j].called /\ cyclog[j].ok

\* C16: a failing SMTP step makes send_email_alert return False; the alert
\* is attempted once (the steps performed are one run of connect, starttls,
\* login, sendmail cut at the failing step, and an event has one log entry
\* per cycle), nothing raises out of the loop, and the events after it are
\* processed and can be sent.
C16_DispatchFailureContained ==
    fetchlog.path = "loop" =>
        /\ pc \in {"events", "sleep"}
        /\ Len(cyclog) = idx - 1
        /\ \A i \in DOMAIN cyclog : \A j \in DOMAIN cyclog :
             i # j => cyclog[i].id # cyclog[j].id
        /\ \A i \in DOMAIN cyclog :
             LET r == cyclog[i]
             IN /\ \E k \in 0..Len(SmtpSteps) : r.steps = SubSeq(SmtpSteps, 1, k)
                /\ r.ok <=> (r.called /\ r.steps = SmtpSteps)
                /\ ~r.ok => r.to = <<>>
                /\ OnItsOwn(i)

\* C16 witness: the first alert of a cycle failed at an SMTP step and the
\* second was sent.
C16_Witness ==
    /\ pc = "sleep"
    /\ \E i \in DOMAIN cyclog : \E j \in DOMAIN cyclog :
         /\ i < j
         /\ cyclog[i].called /\ ~cyclog[i].ok /\ cyclog[i].steps # <<>>
         /\ cyclog[j].called /\ cyclog[j].ok

\* C17: with empty credentials send_email_alert returns False without an
\* SMTP step; with an empty recipient list the cycle reaches no event and
\* sends nothing; neither ends main, whose cycles go on at check_interval.
C17_ConfigMissingNonFatal ==
    /\ (pc # "import" /\ (EMAIL_USERNAME = "" \/ EMAIL_PASSWORD = "")) =>
         /\ \A i \in DOMAIN cyclog : ~cyclog[i].ok /\ cyclog[i].steps = <<>>
         /\ alerts_sent = 0
    /\ fetchlog.path = "no_recipients" => (cyclog = <<>> /\ pc = "sleep")
    /\ (pc \in {"events", "sleep"} /\ recipients = <<>>) => cyclog = <<>>
    /\ pc = "stopped_error" => fetchlog.path = "raise"
    /\ pc \in {"cycle", "events", "sleep"} => now = StartNow + cycle * check_interval

\* C17 witness: in its second cycle a process without credentials handed an
\* alert to send_email_alert, which returned False without an SMTP step.
C17_Witness ==
    /\ cycle = 1
    /\ EMAIL_USERNAME = ""
    /\ \E i \in DOMAIN cyclog :
         cyclog[i].called /\ ~cyclog[i].ok /\ cyclog[i].steps = <<>>

-----------------------------------------------------------------------------
(* Properties of the feature builders, under NormalizeSpec *)

EntryPoints == {"email", "monitor", "dashboard"}

\* the magnitude type the entry point reads from the event: the dashboard
\* reads a missing one as 'unknown', the others as ''
MagTypeRead(ep) ==
    IF ep = "dashboard" /\ nz_event.magType = "" THEN "unknown" ELSE nz_event.magType

\* C18: in the row each entry point hands to its model, a magType_ column
\* of the schema is 1 exactly when it is the column of the event's
\* magnitude type and 0 otherwise, so that at most one is 1 and all are 0
\* for a type without a column or a missing type.
C18_OneHotMagType ==
    nz_pc = "built" =>
        \A ep \in EntryPoints :
            nz_rows[ep].ok =>
                \A k \in 1..Len(nz_schema) :
                    IsMagTypeColumn(nz_schema[k]) =>
                        nz_rows[ep].row[k] =
                            IF MagTypeOf(nz_schema[k]) = MagTypeRead(ep)
                            THEN Num(1) ELSE Num(0)

\* the raw field a numeric schema feature is read from
RawField(earthquake, feature) ==
    CASE feature = "magnitude" -> earthquake.mag
      [] feature = "sig"       -> earthquake.sig
      [] feature = "gap"       -> earthquake.gap
      [] feature = "dmin"      -> earthquake.dmin
      [] feature = "mmi"       -> earthquake.mmi
      [] feature = "longitude" ->
           IF Len(earthquake.coords) > 0 THEN Num(earthquake.coords[1]) ELSE Absent
      [] feature = "latitude"  ->
           IF Len(earthquake.coords) > 1 THEN Num(earthquake.coords[2]) ELSE Absent
      [] feature = "depth"     ->
           IF Len(earthquake.coords) > 2 THEN Num(earthquake.coords[3]) ELSE Absent
      [] OTHER -> Absent

\* C19: the row built by email_alert and by tsunami_monitor has one entry
\* per schema feature, in the schema's order, each a number: the event's
\* value where it has one, 0 where it lacks the feature.
C19_SchemaShapedNumeric ==
    nz_pc = "built" =>
        \A ep \in {"email", "monitor"} :
            nz_rows[ep].ok =>
                /\ Len(nz_rows[ep].row) = Len(nz_schema)
                /\ \A k \in 1..Len(nz_schema) :
                     LET v == nz_rows[ep].row[k]
                         raw == RawField(nz_event, nz_schema[k])
                     IN /\ v.kind = "num"
                        /\ (raw.kind = "num" /\ ~IsMagTypeColumn(nz_schema[k])) => v = raw
                        /\ (raw.kind = "absent" /\ ~IsMagTypeColumn(nz_schema[k])) => v = Num(0)

-----------------------------------------------------------------------------
(* Properties of the recipient store, under LoadSpec *)

\* C20: a load that finds emails.txt absent or unreadable returns the
\* default pair; when the file can be written the pair is written to it and
\* the next load reads the same pair from the file; when it cannot, the
\* default pair is returned all the same and the file stays as it was.
C20_DefaultsWrittenBack ==
    \A i \in DOMAIN ld_returns :
        LET r == ld_returns[i]
            last == i = Len(ld_returns)
        IN r.found \in {"absent", "corrupt"} =>
             /\ r.emails = default_emails
             /\ r.wrote <=> r.writable
             /\ (r.wrote /\ last) => store = StoreList(default_emails, TRUE)
             /\ (r.wrote /\ ~last) =>
                  ld_returns[i + 1].found = "list" /\ ld_returns[i + 1].emails = default_emails
             /\ (~r.wrote /\ last) => store.state = r.found
             /\ (~r.wrote /\ ~last) =>
                  ld_returns[i + 1].found = r.found /\ ld_returns[i + 1].emails = default_emails

\* C20 witness: a first load found no file and wrote the defaults, and the
\* second load read them from the file.
C20_Witness ==
    /\ Len(ld_returns) = 2
    /\ ld_returns[1].found = "absent" /\ ld_returns[1].wrote
    /\ ld_returns[2].found = "list" /\ ld_returns[2].emails = default_emails

\* the entries of a stored list that hold both characters, in store order
ValidInOrder(items) == SelectSeq(items, LAMBDA a : a.at /\ a.dot)

\* C21: the list load_email_recipients returns from a stored list holds
\* exactly the stored entries with an '@' and a '.', in store order, and no
\* address twice.
C21_OrderedSetOfValid ==
    \A i \in DOMAIN ld_returns :
        LET r == ld_returns[i]
        IN /\ \A k \in DOMAIN r.emails : r.emails[k].at /\ r.emails[k].dot
           /\ (r.found = "list" /\ i = Len(ld_returns)) => r.emails = ValidInOrder(store.items)
           /\ \A j \in DOMAIN r.emails : \A k \in DOMAIN r.emails :
                j # k => r.emails[j] # r.emails[k]

-----------------------------------------------------------------------------
(* What a cycle counts, under Spec *)

\* the counters process_earthquakes keeps over its loop and reports in the
\* line it prints before returning: alerts_sent, and no other
CycleSummary == [alerts_sent |-> alerts_sent]

\* C22: a malformed record inside a valid payload is dropped without failing
\* the fetch or the cycle, and the cycle keeps a count of the records it
\* skipped: once the loop is over, the skipped count is the number of events
\* whose processing failed.
C22_SkippedCounted ==
    (pc = "sleep" /\ fetchlog.path = "loop") =>
        /\ Len(cyclog) = Len(payload)
        /\ "skipped" \in DOMAIN CycleSummary
        /\ CycleSummary["skipped"] =
             Cardinality({ i \in DOMAIN cyclog : cyclog[i].stage \in ErrorStages })

-----------------------------------------------------------------------------
(* The official flag, end to end, under Spec *)

\* log entry r is of an event that carries the official flag and is inside
\* the recency window at the running cycle's `now`
FlaggedInWindow(r) ==
    LET e == FeedEvent(r.id)
    IN /\ e.hasProps
       /\ e.tsunami = Num(1)
       /\ e.time.kind = "num"
       /\ AgeMs(r) <= 1800 * 1000

\* send_email_alert was called once for the event of log entry i
CalledOnce(i) ==
    /\ cyclog[i].called
    /\ \A j \in DOMAIN cyclog : cyclog[j].id = cyclog[i].id => j = i

\* C23 as stated: an event inside the recency window that carries the
\* official flag is assessed at 1.0 and handed to send_email_alert once,
\* under a HIGH subject, with or without a model.
C23_FlaggedDispatched ==
    \A i \in DOMAIN cyclog :
        (FlaggedInWindow(cyclog[i]) /\ recipients # <<>>) =>
            /\ cyclog[i].prob = 100
            /\ cyclog[i].label = "HIGH"
            /\ CalledOnce(i)

\* C23 amended: an event inside the recency window that carries the official
\* flag is assessed at 1.0 without the model being invoked and gets a HIGH
\* subject, with or without a model; it is handed to send_email_alert, once,
\* exactly when it has a geometry for the body to be formatted from.
C23_FlaggedWithGeometryDispatched ==
    \A i \in DOMAIN cyclog :
        (FlaggedInWindow(cyclog[i]) /\ recipients # <<>>) =>
            /\ cyclog[i].prob = 100
            /\ cyclog[i].reason = "official"
            /\ ~cyclog[i].invoked
            /\ cyclog[i].label = "HIGH"
            /\ FeedEvent(cyclog[i].id).hasGeom => CalledOnce(i)
            /\ ~FeedEvent(cyclog[i].id).hasGeom =>
                 cyclog[i].stage = "error_format" /\ cyclog[i].steps = <<>>

\* C23 witness: with a model loaded, the magnitude 7.8 event carrying the
\* flag was assessed at 1.0 and handed to send_email_alert under HIGH, and
\* in the same cycle the flagged event without geometry was not.
C23_Witness ==
    /\ model = "loaded"
    /\ \E i \in DOMAIN cyclog : \E j \in DOMAIN cyclog :
         /\ cyclog[i].id = "official" /\ FeedEvent("official").mag = Num(78)
         /\ cyclog[i].prob = 100 /\ cyclog[i].label = "HIGH" /\ CalledOnce(i)
         /\ cyclog[j].id = "nogeom" /\ cyclog[j].prob = 100 /\ ~cyclog[j].called

-----------------------------------------------------------------------------
(* The order of the stages of one iteration, under Spec *)

\* the feature has the fields the iteration reads: properties with a numeric
\* time and magnitude, and a geometry
WellFormed(e) ==
    /\ e.hasProps
    /\ e.time.kind = "num"
    /\ e.mag.kind = "num"
    /\ e.hasGeom

\* C24: an event is scored before the recency filter is applied to it: every
\* well-formed event of the payload the loop has reached has a risk
\* assessment, the events the filter rejects included, and only what comes
\* after the filter (formatting, dispatch) is withheld from those.
C24_ScoredBeforeFiltered ==
    \A i \in DOMAIN cyclog :
        WellFormed(FeedEvent(cyclog[i].id)) =>
            /\ cyclog[i].scored
            /\ cyclog[i].stage = "too_old" => ~cyclog[i].called /\ cyclog[i].label = "none"

-----------------------------------------------------------------------------
(* The steps of one send, under Spec *)

\* the position of step in the steps of log entry r, 0 when it was not made
StepAt(r, step) ==
    IF \E k \in DOMAIN r.steps : r.steps[k] = step
    THEN CHOOSE k \in DOMAIN r.steps : r.steps[k] = step
    ELSE 0

\* C25: a send_email_alert call makes its steps in the order connect, TLS
\* upgrade, login, send, each at most once; a message is sent only after the
\* TLS upgrade and the login were made, in one send addressed to the whole
\* recipient list; a call that fails at a step has sent no message.
C25_OneAuthenticatedSend ==
    \A i \in DOMAIN cyclog :
        LET r == cyclog[i]
            sent == StepAt(r, "sendmail") # 0
        IN /\ r.steps # <<>> => (r.called /\ r.steps[1] = "connect")
           /\ \A k \in DOMAIN r.steps : \A l \in DOMAIN r.steps :
                r.steps[k] = r.steps[l] => k = l
           /\ StepAt(r, "starttls") # 0 => StepAt(r, "starttls") = StepAt(r, "connect") + 1
           /\ StepAt(r, "login") # 0 => StepAt(r, "login") = StepAt(r, "starttls") + 1
           /\ sent => /\ StepAt(r, "sendmail") = StepAt(r, "login") + 1
                      /\ StepAt(r, "sendmail") = Len(r.steps)
           /\ sent <=> r.ok
           /\ sent => r.to = recipients
           /\ ~sent => r.to = <<>>

\* C25 witness: in one cycle a call made the four steps and sent one message
\* to both recipients, and another stopped at the login, after the TLS
\* upgrade, and sent none.
C25_Witness ==
    /\ Len(recipients) = 2
    /\ \E i \in DOMAIN cyclog : \E j \in DOMAIN cyclog :
         /\ cyclog[i].steps = <<"connect", "starttls", "login", "sendmail">>
         /\ cyclog[i].to = recipients
         /\ cyclog[j].called /\ cyclog[j].steps = <<"connect", "starttls">>
         /\ cyclog[j].to = <<>>

-----------------------------------------------------------------------------
(* Where the credentials come from, under Spec *)

\* C26: when the environment sets EMAIL_USERNAME and EMAIL_PASSWORD to
\* non-empty values, the process has them as its credentials once the module
\* is imported, so that send_email_alert does not return on its 'credentials
\* not set' path and logs in with those values.
C26_CredentialsFromEnvironment ==
    (pc # "import" /\ env["EMAIL_USERNAME"] # "" /\ env["EMAIL_PASSWORD"] # "") =>
        /\ EMAIL_USERNAME = env["EMAIL_USERNAME"]
        /\ EMAIL_PASSWORD = env["EMAIL_PASSWORD"]

-----------------------------------------------------------------------------
(* The labels of the alerts a cycle sends, under Spec *)

\* C27: no alert handed to send_email_alert carries the subject label LOW or
\* the body level Low; the formatters' lowest branch is not reached from the
\* loop, whose gate is the MEDIUM threshold.
C27_NoLowAlert ==
    \A i \in DOMAIN cyclog :
        /\ cyclog[i].label # "LOW"
        /\ cyclog[i].level # "Low"
        /\ cyclog[i].called =>
             /\ cyclog[i].label \in {"MEDIUM", "HIGH"}
             /\ cyclog[i].level \in {"Medium", "High"}

\* C27 witness: in one cycle an event assessed just below the gate was left
\* unformatted and one assessed at the gate was handed to send_email_alert
\* as MEDIUM in the subject and Medium in the body.
C27_Witness ==
    \E i \in DOMAIN cyclog : \E j \in DOMAIN cyclog :
        /\ cyclog[i].prob = 39 /\ cyclog[i].stage = "below_gate" /\ cyclog[i].label = "none"
        /\ cyclog[j].prob = 40 /\ cyclog[j].called
        /\ cyclog[j].label = "MEDIUM" /\ cyclog[j].level = "Medium"

-----------------------------------------------------------------------------
(* Subject and body of one alert, under ScoreSpec *)

\* the body level that goes with a subject label
LevelOf(label) ==
    CASE label = "HIGH" -> "High"
      [] label = "MEDIUM" -> "Medium"
      [] label = "LOW" -> "Low"
      [] OTHER -> "none"

\* C28: for every probability the subject's label and the body's level name
\* the same level: an alert formatted from one assessment never says HIGH in
\* the subject and Medium in the body, or the like.
C28_SubjectBodyAgree ==
    (sc_pc = "labelled" /\ sc_format.body_ok) =>
        /\ sc_format.subject \in {"HIGH", "MEDIUM", "LOW"}
        /\ sc_format.level = LevelOf(sc_format.subject)

\* C28 witness: at probability 0.7, the boundary, subject and body were
\* formatted as HIGH and High.
C28_Witness ==
    /\ sc_pc = "labelled"
    /\ sc_result.prob = 70
    /\ sc_format.body_ok
    /\ sc_format.subject = "HIGH" /\ sc_format.level = "High"

-----------------------------------------------------------------------------
(* The recency test on times that are not in the past, under IterationSpec *)

\* C29: the recency test bounds the age from above only. A feature whose
\* time lies after the clock passes it, is scored, and is handed to
\* send_email_alert when its assessment reaches the gate; a feature without a
\* `time` is taken as of the epoch and is rejected as too old, unscored and
\* unsent, the official flag notwithstanding.
C29_RecencyBoundsAgeAboveOnly ==
    \A i \in DOMAIN it_log :
        LET e == it_log[i].event
            r == it_log[i].out
        IN /\ (e.time.kind = "num" /\ e.time.v > now * 1000) =>
                /\ r.stage \notin {"too_old", "error_time"}
                /\ r.scored
                /\ r.called <=> r.prob >= 40
                /\ e.tsunami = Num(1) => r.called
           /\ e.time.kind = "absent" =>
                /\ r.stage = "too_old"
                /\ ~r.scored /\ ~r.called /\ r.steps = <<>>

\* C29 witness: a flagged feature dated an hour after the clock was sent, and
\* a flagged feature without a time was rejected as too old.
C29_Witness ==
    \E i \in DOMAIN it_log : \E j \in DOMAIN it_log :
        /\ it_log[i].event.time = Num(StartNow * 1000 + 3600000)
        /\ it_log[i].event.tsunami = Num(1)
        /\ it_log[i].out.called /\ it_log[i].out.ok
        /\ it_log[j].event.time = Absent
        /\ it_log[j].event.tsunami = Num(1)
        /\ it_log[j].out.stage = "too_old"

-----------------------------------------------------------------------------
(* Properties of the supervisor (tsunami_system.py), under SupervisorSpec *)

\* the started processes of a script that are running
AliveOf(script) ==
    { i \in DOMAIN sup_procs :
        sup_procs[i].script = script /\ sup_procs[i].state = "alive" }

\* at most one running process of each script
OneOfEach ==
    /\ Cardinality(AliveOf(DashboardScript)) <= 1
    /\ Cardinality(AliveOf(AlertScript)) <= 1

\* a process is started again only when a poll has seen the one held ended:
\* main is about to start one again only with the held one over, and every
\* process started has outlived the earlier ones of its script
RestartAfterPoll ==
    /\ sup_pc = "restart_dashboard" => ~Running(dashboard_process)
    /\ sup_pc = "restart_alert" => ~Running(alert_process)
    /\ \A i \in DOMAIN sup_procs : \A j \in DOMAIN sup_procs :
         (j < i /\ sup_procs[j].script = sup_procs[i].script) =>
            sup_procs[j].state # "alive"

\* once main has ended on an interrupt no process it started is running
InterruptTerminates ==
    sup_pc \in {"stopped", "killed"} =>
        AliveOf(DashboardScript) = {} /\ AliveOf(AlertScript) = {}

\* C30: under the supervisor at most one alert process and one dashboard
\* process it started is running at any moment, a process is started again
\* only after a poll has seen the held one ended, and after an interrupt
\* both children are terminated: none of the started processes is running.
C30_SupervisedChildren ==
    /\ OneOfEach
    /\ RestartAfterPoll
    /\ InterruptTerminates

====
